---- MODULE Spec2Model ----
(***************************************************************************)
(* State-machine model of src/generic/timer_irq.c (Klipper): the timer     *)
(* interrupt's dispatch loop, the forced defer, the idle task and the      *)
(* shutdown hook, with the 32-bit wrapping clock arithmetic they rely on.  *)
(*                                                                         *)
(* A uint32_t is represented by the integer in -2^31 .. 2^31-1 that has    *)
(* the same 32-bit pattern (two's complement), because the model checker's *)
(* integers are 32 bits wide: 0xFFFFFFF0 is written -16.  Add32 and Sub32  *)
(* are addition and subtraction modulo 2^32 on that representation, and    *)
(* the C cast (int32_t)x is then the identity.                             *)
(***************************************************************************)
EXTENDS Integers, Sequences, FiniteSets, TLC

VARIABLES
    clock,               \* last value returned by timer_read_time()
    ticks,               \* clock advances still allowed (Unlimited: no cap)
    queue_next,          \* earliest pending deadline of the external timer queue
    timer_repeat_until,  \* static uint32_t timer_repeat_until (line 39)
    last_timer,          \* static uint32_t last_timer of timer_task (line 89)
    irq_on,              \* TRUE iff interrupts are unmasked
    mode,                \* "run", "shutdown" (handlers running), "halted"
    task,                \* the timer_task activation (task context)
    stack,               \* timer_dispatch_many activations, innermost last
    irqs,                \* timer interrupts taken so far
    tru_unmasked,        \* TRUE once timer_repeat_until was accessed unmasked
    hook,                \* record of the timer_irq_shutdown calls made
    cmp                  \* inputs and results of the timer_is_before checks

vars == <<clock, ticks, queue_next, timer_repeat_until, last_timer, irq_on,
          mode, task, stack, irqs, tru_unmasked, hook, cmp>>

-----------------------------------------------------------------------------
(* 32-bit arithmetic *)

MaxInt32 == 2147483647
MinInt32 == (-MaxInt32) - 1

Word32 == MinInt32 .. MaxInt32

\* (a + b) mod 2^32, on the two's complement representation.
Add32(a, b) ==
    IF a >= 0 /\ b > MaxInt32 - a
        THEN ((a - MaxInt32) - 1) + ((b - MaxInt32) - 1)
    ELSE IF a < 0 /\ b < MinInt32 - a
        THEN ((a + MaxInt32) + 1) + ((b + MaxInt32) + 1)
    ELSE a + b

\* (-b) mod 2^32.
Neg32(b) == IF b = MinInt32 THEN MinInt32 ELSE -b

\* (a - b) mod 2^32.
Sub32(a, b) == Add32(a, Neg32(b))

-----------------------------------------------------------------------------
(* Clock arithmetic, lines 15-31 *)

CONFIG_CLOCK_FREQ == 16000000

\* timer_from_us: us * (CONFIG_CLOCK_FREQ / 1000000).  The products used here
\* stay below 2^31, so no reduction modulo 2^32 takes place.
timer_from_us(us) == us * (CONFIG_CLOCK_FREQ \div 1000000)

timer_is_before_mut_le(time1, time2) == Sub32(time1, time2) <= 0

timer_is_before_mut_unsigned(time1, time2) ==
    \* a plain unsigned comparison time1 < time2
    IF (time1 >= 0) = (time2 >= 0) THEN time1 < time2 ELSE time1 >= 0

\* timer_is_before: (int32_t)(time1 - time2) < 0
timer_is_before(time1, time2) == Sub32(time1, time2) < 0

TIMER_IDLE_REPEAT_TICKS == timer_from_us(500)
TIMER_REPEAT_TICKS == timer_from_us(100)
TIMER_MIN_TRY_TICKS == timer_from_us(1)
TIMER_DEFER_REPEAT_TICKS == timer_from_us(5)

-----------------------------------------------------------------------------
(* Bounds of the model *)

MaxDepth == 2        \* nesting depth of timer interrupts
MaxIrqs == 2         \* timer interrupts per behaviour
MaxCalls == 2        \* timer_task calls per behaviour
MaxHooks == 2        \* timer_irq_shutdown calls per behaviour
MaxAdvances == 2     \* clock advances per behaviour (fine-grained clock)
MaxIter == 2         \* loop iterations per timer_dispatch_many call
                     \* (fine-grained clock); call counters saturate here

Unlimited == 0 - 1

\* Ticks by which the clock may have advanced since the previous reading.
FineDeltas == {0, TIMER_REPEAT_TICKS + 1, TIMER_IDLE_REPEAT_TICKS + 1}
CoarseDeltas == {0, 2^29}
Deltas == IF ticks = Unlimited THEN CoarseDeltas ELSE FineDeltas

\* Deadlines the queue may report, relative to the clock.
\* far ahead; near (a spin-wait); due, within the 1 ms tolerance even one
\* clock advance later; more than 1 ms in the past.
QueueOffsets ==
    {10000, TIMER_MIN_TRY_TICKS,
     (TIMER_REPEAT_TICKS + 1) - timer_from_us(1000),
     (0 - timer_from_us(1000)) - 1}

InitClocks == {16, 0 - 8}

Inc(n) == IF n < MaxIter THEN n + 1 ELSE n

-----------------------------------------------------------------------------
(* External collaborators *)

\* timer_read_time(): the free-running counter, d ticks after the last reading.
timer_read_time(d) == Add32(clock, d)

CanAdvance(d) == d \in Deltas /\ (d = 0 \/ ticks = Unlimited \/ ticks > 0)

TicksAfter(d) == IF d = 0 \/ ticks = Unlimited THEN ticks ELSE ticks - 1

\* An access of timer_repeat_until: noted when interrupts are unmasked.
Access == tru_unmasked \/ irq_on

-----------------------------------------------------------------------------
(* timer_dispatch_many and force_defer, lines 47-82 *)

NewFrame ==
    [pc |-> "load", tru |-> 0, next |-> 0, now |-> 0, diff |-> 0, fnow |-> 0,
     ret |-> 0, exit |-> "none",
     nd |-> 0, ne |-> 0, ndis |-> 0, nf |-> 0, ns |-> 0,
     tru0 |-> timer_repeat_until,
     expired0 |-> timer_is_before(timer_repeat_until, clock),
     allpast |-> TRUE]

Top == stack[Len(stack)]

SetTop(f) == [stack EXCEPT ![Len(stack)] = f]

Running(pc) == mode = "run" /\ stack # <<>> /\ Top.pc = pc

\* The hardware timer interrupt: taken only while interrupts are unmasked, it
\* masks them and calls timer_dispatch_many.
timer_irq ==
    /\ mode = "run"
    /\ irq_on
    /\ Len(stack) < MaxDepth
    /\ irqs < MaxIrqs
    /\ irqs' = irqs + 1
    /\ stack' = Append(stack, NewFrame)
    /\ irq_on' = FALSE
    /\ task' = IF task.pc = "wait" THEN [task EXCEPT !.woken = TRUE] ELSE task
    /\ UNCHANGED <<clock, ticks, queue_next, timer_repeat_until, last_timer,
                   mode, tru_unmasked, hook, cmp>>

\* line 61: uint32_t tru = timer_repeat_until;
dm_load ==
    /\ Running("load")
    /\ stack' = SetTop([Top EXCEPT !.pc = "dispatch", !.tru = timer_repeat_until])
    /\ tru_unmasked' = Access
    /\ UNCHANGED <<clock, ticks, queue_next, timer_repeat_until, last_timer,
                   irq_on, mode, task, irqs, hook, cmp>>

\* line 64: uint32_t next = sched_timer_dispatch();
dm_dispatch ==
    /\ Running("dispatch")
    /\ ticks = Unlimited \/ Top.nd < MaxIter
    /\ \E off \in QueueOffsets :
        LET next == Add32(clock, off) IN
        /\ queue_next' = next
        /\ stack' = SetTop([Top EXCEPT !.pc = "read", !.next = next,
                                       !.nd = Inc(@),
                                       !.allpast = @ /\ off < 0 - timer_from_us(1000)])
    /\ UNCHANGED <<clock, ticks, timer_repeat_until, last_timer, irq_on, mode,
                   task, irqs, tru_unmasked, hook, cmp>>

\* lines 66-67: now = timer_read_time(); diff = next - now;
dm_read ==
    /\ Running("read")
    /\ \E d \in Deltas :
        /\ CanAdvance(d)
        /\ LET now == timer_read_time(d)
               diff == Sub32(Top.next, now)
           IN  /\ clock' = now
               /\ ticks' = TicksAfter(d)
               /\ stack' = SetTop([Top EXCEPT
                    !.pc = "decide", !.now = now, !.diff = diff])
    /\ UNCHANGED <<queue_next, timer_repeat_until, last_timer, irq_on, mode,
                   task, irqs, tru_unmasked, hook, cmp>>

\* The comparison made on the unsigned difference (the cast forgotten).
ScheduleNormally_mut_unsigned(diff) == diff > TIMER_MIN_TRY_TICKS \/ diff < 0

\* line 68: diff > (int32_t)TIMER_MIN_TRY_TICKS
ScheduleNormally(diff) == diff > TIMER_MIN_TRY_TICKS

\* The starvation test with its operands exchanged.
RepeatExpired_mut_swapped(f) == timer_is_before(f.now, f.tru)

\* The test made on the variable instead of the copy taken at line 61.
RepeatExpired_mut_reload(f) == timer_is_before(timer_repeat_until, f.now)

\* line 72: timer_is_before(tru, now)
RepeatExpired(f) == timer_is_before(f.tru, f.now)

\* The decision with the starvation test made before the deadline test.
dm_decide_mut_order ==
    /\ Running("decide")
    /\ stack' = SetTop(
         IF RepeatExpired(Top)
            THEN [Top EXCEPT !.pc = "fd_read", !.nf = Inc(@)]
         ELSE IF ScheduleNormally(Top.diff)
            THEN [Top EXCEPT !.pc = "ret", !.ret = Top.next, !.exit = "next"]
         ELSE [Top EXCEPT !.pc = "enable"])
    /\ UNCHANGED <<clock, ticks, queue_next, timer_repeat_until, last_timer,
                   irq_on, mode, task, irqs, tru_unmasked, hook, cmp>>

\* lines 68-77: the three-way decision of one iteration.
dm_decide ==
    /\ Running("decide")
    /\ stack' = SetTop(
         IF ScheduleNormally(Top.diff)
            THEN [Top EXCEPT !.pc = "ret", !.ret = Top.next, !.exit = "next"]
         ELSE IF RepeatExpired(Top)
            THEN [Top EXCEPT !.pc = "fd_read", !.nf = Inc(@)]
         ELSE [Top EXCEPT !.pc = "enable"])
    /\ UNCHANGED <<clock, ticks, queue_next, timer_repeat_until, last_timer,
                   irq_on, mode, task, irqs, tru_unmasked, hook, cmp>>

\* line 50: uint32_t now = timer_read_time();
fd_read ==
    /\ Running("fd_read")
    /\ \E d \in Deltas :
        /\ CanAdvance(d)
        /\ clock' = timer_read_time(d)
        /\ ticks' = TicksAfter(d)
        /\ stack' = SetTop([Top EXCEPT !.pc = "fd_check", !.fnow = timer_read_time(d)])
    /\ UNCHANGED <<queue_next, timer_repeat_until, last_timer, irq_on, mode,
                   task, irqs, tru_unmasked, hook, cmp>>

\* The fatal test also taken by a deadline exactly 1 ms of ticks in the past.
InThePast_mut_inclusive(next, now) ==
    timer_is_before_mut_le(Add32(next, timer_from_us(1000)), now)

\* The fatal test with its operands exchanged.
InThePast_mut_swapped(next, now) ==
    timer_is_before(now, Add32(next, timer_from_us(1000)))

\* line 51: timer_is_before(next + timer_from_us(1000), now)
InThePast(next, now) == timer_is_before(Add32(next, timer_from_us(1000)), now)

\* The repeat window re-armed with the length of the minimum try.
force_defer_repeat_mut_short(now) == Add32(now, TIMER_MIN_TRY_TICKS)

\* line 53: now + TIMER_REPEAT_TICKS
force_defer_repeat(now) == Add32(now, TIMER_REPEAT_TICKS)

\* The deferred deadline computed with the repeat window's length.
force_defer_result_mut_window(now) == Add32(now, TIMER_REPEAT_TICKS)

\* line 54: now + TIMER_DEFER_REPEAT_TICKS
force_defer_result(now) == Add32(now, TIMER_DEFER_REPEAT_TICKS)

\* lines 51-54.  shutdown() does not return: it masks interrupts and hands
\* control to the shutdown handlers; the activations in flight are abandoned.
\* The write of line 53 is noted in task.fdw when it interrupts a timer_task
\* call that is in irq_wait or past its irq_enable.
force_defer ==
    /\ Running("fd_check")
    /\ IF InThePast(Top.next, Top.fnow)
          THEN /\ stack' = SetTop([Top EXCEPT !.pc = "fatal", !.exit = "fatal",
                                              !.ns = Inc(@)])
               /\ mode' = "shutdown"
               /\ irq_on' = FALSE
               /\ UNCHANGED <<timer_repeat_until, tru_unmasked>>
          ELSE /\ timer_repeat_until' = force_defer_repeat(Top.fnow)
               /\ tru_unmasked' = Access
               /\ stack' = SetTop([Top EXCEPT !.pc = "ret", !.exit = "defer",
                                              !.ret = force_defer_result(Top.fnow)])
               /\ UNCHANGED <<mode, irq_on>>
    /\ task' = IF InThePast(Top.next, Top.fnow)
                  \/ task.pc \notin {"wait", "store", "stats"}
                  THEN task
               ELSE [task EXCEPT !.fdw = TRUE]
    /\ UNCHANGED <<clock, ticks, queue_next, last_timer, irqs, hook, cmp>>

\* line 77: irq_enable();
dm_irq_enable ==
    /\ Running("enable")
    /\ irq_on' = TRUE
    /\ stack' = SetTop([Top EXCEPT !.pc = "spin", !.ne = Inc(@)])
    /\ UNCHANGED <<clock, ticks, queue_next, timer_repeat_until, last_timer,
                   mode, task, irqs, tru_unmasked, hook, cmp>>

\* The spin-wait recomputing diff from the reading of line 66.
dm_spin_mut_stale ==
    /\ Running("spin")
    /\ Top.diff > 0
    /\ \E d \in Deltas :
        /\ CanAdvance(d)
        /\ clock' = timer_read_time(d)
        /\ ticks' = TicksAfter(d)
        /\ stack' = SetTop([Top EXCEPT !.diff = Sub32(Top.next, Top.now)])
    /\ UNCHANGED <<queue_next, timer_repeat_until, last_timer, irq_on, mode,
                   task, irqs, tru_unmasked, hook, cmp>>

\* lines 78-79: while (diff > 0) diff = next - timer_read_time();
dm_spin ==
    /\ Running("spin")
    /\ Top.diff > 0
    /\ \E d \in Deltas :
        /\ CanAdvance(d)
        /\ clock' = timer_read_time(d)
        /\ ticks' = TicksAfter(d)
        /\ stack' = SetTop([Top EXCEPT !.diff = Sub32(Top.next, timer_read_time(d))])
    /\ UNCHANGED <<queue_next, timer_repeat_until, last_timer, irq_on, mode,
                   task, irqs, tru_unmasked, hook, cmp>>

\* The spin-wait left without waiting for diff <= 0.
dm_irq_disable_mut_early ==
    /\ Running("spin")
    /\ irq_on' = FALSE
    /\ stack' = SetTop([Top EXCEPT !.pc = "dispatch", !.ndis = Inc(@)])
    /\ UNCHANGED <<clock, ticks, queue_next, timer_repeat_until, last_timer,
                   mode, task, irqs, tru_unmasked, hook, cmp>>

\* line 80: irq_disable(); and back to line 64
dm_irq_disable ==
    /\ Running("spin")
    /\ Top.diff <= 0
    /\ irq_on' = FALSE
    /\ stack' = SetTop([Top EXCEPT !.pc = "dispatch", !.ndis = Inc(@)])
    /\ UNCHANGED <<clock, ticks, queue_next, timer_repeat_until, last_timer,
                   mode, task, irqs, tru_unmasked, hook, cmp>>

\* The interrupt handler returns: the hardware timer is programmed with the
\* returned value and the interrupted context resumes with interrupts unmasked.
dm_return ==
    /\ Running("ret")
    /\ stack' = SubSeq(stack, 1, Len(stack) - 1)
    /\ irq_on' = TRUE
    /\ UNCHANGED <<clock, ticks, queue_next, timer_repeat_until, last_timer,
                   mode, task, irqs, tru_unmasked, hook, cmp>>

-----------------------------------------------------------------------------
(* timer_task, lines 84-107 *)

\* fdw notes that force_defer wrote timer_repeat_until while the call in
\* progress was in irq_wait, or since the call's irq_enable.
IdleTask ==
    [pc |-> "idle", lst |-> 0, next |-> 0, cur |-> 0, post |-> 0,
     woken |-> FALSE, calls |-> 0, prev |-> 0,
     nwait |-> 0, nen |-> 0, ndis |-> 0, nstats |-> 0, slept |-> 0,
     fdw |-> FALSE]

TaskAt(pc) == mode = "run" /\ stack = <<>> /\ task.pc = pc

\* timer_get_next(): the queue's earliest pending deadline, nothing dispatched.
timer_get_next == queue_next

\* lines 94, 103 and 112: <time> + TIMER_IDLE_REPEAT_TICKS
idle_repeat(now) == Add32(now, TIMER_IDLE_REPEAT_TICKS)

\* line 90: the task scheduler calls timer_task; uint32_t lst = last_timer;
tt_begin ==
    /\ TaskAt("idle")
    /\ task.calls < MaxCalls
    /\ task' = [task EXCEPT !.pc = "disable", !.lst = last_timer,
                            !.calls = @ + 1, !.prev = task.next,
                            !.nwait = 0, !.nen = 0, !.ndis = 0, !.nstats = 0]
    /\ UNCHANGED <<clock, ticks, queue_next, timer_repeat_until, last_timer,
                   irq_on, mode, stack, irqs, tru_unmasked, hook, cmp>>

\* timer_task without its irq_disable().
tt_irq_disable_mut_missing ==
    /\ TaskAt("disable")
    /\ task' = [task EXCEPT !.pc = "peek"]
    /\ UNCHANGED <<clock, ticks, queue_next, timer_repeat_until, last_timer,
                   irq_on, mode, stack, irqs, tru_unmasked, hook, cmp>>

\* line 91: irq_disable();
tt_irq_disable ==
    /\ TaskAt("disable")
    /\ irq_on' = FALSE
    /\ task' = [task EXCEPT !.pc = "peek", !.ndis = Inc(@)]
    /\ UNCHANGED <<clock, ticks, queue_next, timer_repeat_until, last_timer,
                   mode, stack, irqs, tru_unmasked, hook, cmp>>

\* The test of line 93 inverted.
DeadlineChanged_mut_inverted(lst, next) == lst = next

\* line 93: lst != next
DeadlineChanged(lst, next) == lst # next

\* The critical section released right after the two reads.
tt_peek_mut_release ==
    /\ TaskAt("peek")
    /\ \E d \in Deltas :
        /\ CanAdvance(d)
        /\ clock' = timer_read_time(d)
        /\ ticks' = TicksAfter(d)
        /\ task' = [task EXCEPT
                      !.pc = IF DeadlineChanged(task.lst, timer_get_next)
                                THEN "boost" ELSE "sleep",
                      !.next = timer_get_next, !.cur = timer_read_time(d),
                      !.lst = 0]
    /\ irq_on' = TRUE
    /\ UNCHANGED <<queue_next, timer_repeat_until, last_timer, mode,
                   stack, irqs, tru_unmasked, hook, cmp>>

\* lines 92-93: next = timer_get_next(), cur = timer_read_time(); if (lst != next)
tt_peek ==
    /\ TaskAt("peek")
    /\ \E d \in Deltas :
        /\ CanAdvance(d)
        /\ clock' = timer_read_time(d)
        /\ ticks' = TicksAfter(d)
        /\ task' = [task EXCEPT
                      !.pc = IF DeadlineChanged(task.lst, timer_get_next)
                                THEN "boost" ELSE "sleep",
                      !.next = timer_get_next, !.cur = timer_read_time(d),
                      !.lst = 0]
    /\ UNCHANGED <<queue_next, timer_repeat_until, last_timer, irq_on, mode,
                   stack, irqs, tru_unmasked, hook, cmp>>

\* The window computed from the deadline instead of the clock reading.
tt_boost_mut_next ==
    /\ TaskAt("boost")
    /\ timer_repeat_until' = idle_repeat(task.next)
    /\ tru_unmasked' = Access
    /\ task' = [task EXCEPT !.pc = "enable1"]
    /\ UNCHANGED <<clock, ticks, queue_next, last_timer, irq_on, mode, stack,
                   irqs, hook, cmp>>

\* line 94: timer_repeat_until = cur + TIMER_IDLE_REPEAT_TICKS;
tt_boost ==
    /\ TaskAt("boost")
    /\ timer_repeat_until' = idle_repeat(task.cur)
    /\ tru_unmasked' = Access
    /\ task' = [task EXCEPT !.pc = "enable1"]
    /\ UNCHANGED <<clock, ticks, queue_next, last_timer, irq_on, mode, stack,
                   irqs, hook, cmp>>

\* The early return taken without unmasking interrupts.
tt_irq_enable1_mut_missing ==
    /\ TaskAt("enable1")
    /\ task' = [task EXCEPT !.pc = "store"]
    /\ UNCHANGED <<clock, ticks, queue_next, timer_repeat_until, last_timer,
                   irq_on, mode, stack, irqs, tru_unmasked, hook, cmp>>

\* line 95: irq_enable();
tt_irq_enable1 ==
    /\ TaskAt("enable1")
    /\ irq_on' = TRUE
    /\ task' = [task EXCEPT !.pc = "store", !.nen = Inc(@)]
    /\ UNCHANGED <<clock, ticks, queue_next, timer_repeat_until, last_timer,
                   mode, stack, irqs, tru_unmasked, hook, cmp>>

\* lines 96-97: last_timer = next; return;
tt_store ==
    /\ TaskAt("store")
    /\ last_timer' = task.next
    /\ task' = [task EXCEPT !.pc = "idle", !.fdw = FALSE]
    /\ UNCHANGED <<clock, ticks, queue_next, timer_repeat_until, irq_on, mode,
                   stack, irqs, tru_unmasked, hook, cmp>>

\* line 101: irq_wait() unmasks interrupts and stops the processor ...
tt_irq_wait ==
    /\ TaskAt("sleep")
    /\ irq_on' = TRUE
    /\ task' = [task EXCEPT !.pc = "wait", !.woken = FALSE, !.nwait = Inc(@)]
    /\ UNCHANGED <<clock, ticks, queue_next, timer_repeat_until, last_timer,
                   mode, stack, irqs, tru_unmasked, hook, cmp>>

\* An interrupt other than the timer's: it only wakes the processor.
other_irq ==
    /\ TaskAt("wait")
    /\ irq_on
    /\ ~task.woken
    /\ task' = [task EXCEPT !.woken = TRUE]
    /\ UNCHANGED <<clock, ticks, queue_next, timer_repeat_until, last_timer,
                   irq_on, mode, stack, irqs, tru_unmasked, hook, cmp>>

\* ... until an interrupt has been served; it returns with interrupts masked.
tt_irq_wake ==
    /\ TaskAt("wait")
    /\ task.woken
    /\ irq_on' = FALSE
    /\ task' = [task EXCEPT !.pc = "woke"]
    /\ UNCHANGED <<clock, ticks, queue_next, timer_repeat_until, last_timer,
                   mode, stack, irqs, tru_unmasked, hook, cmp>>

\* The window after the sleep computed from the reading taken before it.
tt_post_sleep_mut_stale ==
    /\ TaskAt("woke")
    /\ \E d \in Deltas :
        /\ CanAdvance(d)
        /\ clock' = timer_read_time(d)
        /\ ticks' = TicksAfter(d)
        /\ timer_repeat_until' = idle_repeat(task.cur)
        /\ task' = [task EXCEPT !.pc = "enable2", !.post = timer_read_time(d)]
    /\ tru_unmasked' = Access
    /\ UNCHANGED <<queue_next, last_timer, irq_on, mode, stack, irqs, hook, cmp>>

\* lines 102-103: post_sleep = timer_read_time();
\*                timer_repeat_until = post_sleep + TIMER_IDLE_REPEAT_TICKS;
tt_post_sleep ==
    /\ TaskAt("woke")
    /\ \E d \in Deltas :
        /\ CanAdvance(d)
        /\ clock' = timer_read_time(d)
        /\ ticks' = TicksAfter(d)
        /\ timer_repeat_until' = idle_repeat(timer_read_time(d))
        /\ task' = [task EXCEPT !.pc = "enable2", !.post = timer_read_time(d)]
    /\ tru_unmasked' = Access
    /\ UNCHANGED <<queue_next, last_timer, irq_on, mode, stack, irqs, hook, cmp>>

\* line 104: irq_enable();
tt_irq_enable2 ==
    /\ TaskAt("enable2")
    /\ irq_on' = TRUE
    /\ task' = [task EXCEPT !.pc = "stats", !.nen = Inc(@), !.fdw = FALSE]
    /\ UNCHANGED <<clock, ticks, queue_next, timer_repeat_until, last_timer,
                   mode, stack, irqs, tru_unmasked, hook, cmp>>

\* line 105: stats_note_sleep(post_sleep - cur);
tt_stats ==
    /\ TaskAt("stats")
    /\ task' = [task EXCEPT !.pc = "idle", !.nstats = Inc(@),
                            !.slept = Sub32(task.post, task.cur),
                            !.fdw = FALSE]
    /\ UNCHANGED <<clock, ticks, queue_next, timer_repeat_until, last_timer,
                   irq_on, mode, stack, irqs, tru_unmasked, hook, cmp>>

-----------------------------------------------------------------------------
(* timer_irq_shutdown, lines 109-114, and the shutdown mechanism calling it *)

\* A shutdown event raised in task context: interrupts are masked and the
\* shutdown handlers are run.  The masking is assumed of the mechanism: line
\* 112 has none of its own, and every access to timer_repeat_until is required
\* to be made with interrupts masked.
sched_shutdown ==
    /\ TaskAt("idle")
    /\ hook.total < MaxHooks
    /\ mode' = "shutdown"
    /\ irq_on' = FALSE
    /\ UNCHANGED <<clock, ticks, queue_next, timer_repeat_until, last_timer,
                   task, stack, irqs, tru_unmasked, hook, cmp>>

\* The hook extending the window it finds: timer_repeat_until += ...
timer_irq_shutdown_mut_accumulate ==
    /\ mode = "shutdown"
    /\ hook.total < MaxHooks
    /\ \E d \in Deltas :
        /\ CanAdvance(d)
        /\ clock' = timer_read_time(d)
        /\ ticks' = TicksAfter(d)
        /\ timer_repeat_until' = idle_repeat(timer_repeat_until)
        /\ hook' = [n |-> Inc(hook.n), total |-> hook.total + 1,
                    now |-> timer_read_time(d),
                    moved |-> hook.n > 0 /\ timer_read_time(d) # hook.now]
    /\ tru_unmasked' = Access
    /\ UNCHANGED <<queue_next, last_timer, irq_on, mode, task, stack, irqs, cmp>>

\* The hook also resetting the idle task's cached deadline.
timer_irq_shutdown_mut_reset ==
    /\ mode = "shutdown"
    /\ hook.total < MaxHooks
    /\ \E d \in Deltas :
        /\ CanAdvance(d)
        /\ clock' = timer_read_time(d)
        /\ ticks' = TicksAfter(d)
        /\ timer_repeat_until' = idle_repeat(timer_read_time(d))
        /\ last_timer' = idle_repeat(timer_read_time(d))
        /\ hook' = [n |-> Inc(hook.n), total |-> hook.total + 1,
                    now |-> timer_read_time(d),
                    moved |-> hook.n > 0 /\ timer_read_time(d) # hook.now]
    /\ tru_unmasked' = Access
    /\ UNCHANGED <<queue_next, irq_on, mode, task, stack, irqs, cmp>>

\* line 112: timer_repeat_until = timer_read_time() + TIMER_IDLE_REPEAT_TICKS;
timer_irq_shutdown ==
    /\ mode = "shutdown"
    /\ hook.total < MaxHooks
    /\ \E d \in Deltas :
        /\ CanAdvance(d)
        /\ clock' = timer_read_time(d)
        /\ ticks' = TicksAfter(d)
        /\ timer_repeat_until' = idle_repeat(timer_read_time(d))
        /\ hook' = [n |-> Inc(hook.n), total |-> hook.total + 1,
                    now |-> timer_read_time(d),
                    moved |-> hook.n > 0 /\ timer_read_time(d) # hook.now]
    /\ tru_unmasked' = Access
    /\ UNCHANGED <<queue_next, last_timer, irq_on, mode, task, stack, irqs, cmp>>

\* The handlers have run: interrupts are unmasked and the task loop resumes,
\* unless the shutdown abandoned an activation (the fatal path).
shutdown_done ==
    /\ mode = "shutdown"
    /\ hook.n > 0
    /\ stack = <<>>
    /\ task.pc = "idle"
    /\ mode' = "run"
    /\ irq_on' = TRUE
    /\ hook' = [hook EXCEPT !.n = 0]
    /\ UNCHANGED <<clock, ticks, queue_next, timer_repeat_until, last_timer,
                   task, stack, irqs, tru_unmasked, cmp>>

-----------------------------------------------------------------------------
(* The specification of the timer core *)

NoCmp == [a |-> 0, b |-> 0, d |-> 1, applied |-> FALSE,
          ab |-> FALSE, ba |-> FALSE, aa |-> FALSE, ad |-> FALSE]

InitCore ==
    /\ queue_next = 0
    /\ timer_repeat_until = 0
    /\ last_timer = 0
    /\ irq_on = TRUE
    /\ mode = "run"
    /\ task = IdleTask
    /\ stack = <<>>
    /\ irqs = 0
    /\ tru_unmasked = FALSE
    /\ hook = [n |-> 0, total |-> 0, now |-> 0, moved |-> FALSE]

Init ==
    /\ InitCore
    /\ clock \in InitClocks
    /\ ticks = MaxAdvances
    /\ cmp = NoCmp

Next ==
    \/ timer_irq
    \/ dm_load
    \/ dm_dispatch
    \/ dm_read
    \/ dm_decide
    \/ fd_read
    \/ force_defer
    \/ dm_irq_enable
    \/ dm_spin
    \/ dm_irq_disable
    \/ dm_return
    \/ tt_begin
    \/ tt_irq_disable
    \/ tt_peek
    \/ tt_boost
    \/ tt_irq_enable1
    \/ tt_store
    \/ tt_irq_wait
    \/ other_irq
    \/ tt_irq_wake
    \/ tt_post_sleep
    \/ tt_irq_enable2
    \/ tt_stats
    \/ sched_shutdown
    \/ timer_irq_shutdown
    \/ shutdown_done

Spec == Init /\ [][Next]_vars

-----------------------------------------------------------------------------
(* The dispatch pass under a clock that never stops: the interrupt context  *)
(* alone, the clock advancing in strides of 2^29 ticks so that it wraps.    *)

LiveInit ==
    /\ InitCore
    /\ clock \in InitClocks
    /\ ticks = Unlimited
    /\ cmp = NoCmp

DispatchStep ==
    \/ dm_load
    \/ dm_dispatch
    \/ dm_read
    \/ dm_decide
    \/ fd_read
    \/ force_defer
    \/ dm_irq_enable
    \/ dm_spin
    \/ dm_irq_disable
    \/ dm_return

LiveNext ==
    \/ timer_irq
    \/ DispatchStep
    \/ tt_begin
    \/ tt_irq_disable
    \/ tt_peek
    \/ tt_boost
    \/ tt_irq_enable1
    \/ tt_store
    \/ tt_irq_wait
    \/ other_irq
    \/ tt_irq_wake
    \/ tt_post_sleep
    \/ tt_irq_enable2
    \/ tt_stats

ClockTick == LiveNext /\ clock' # clock

\* The processor keeps executing the interrupt handler it is in, and the
\* free-running counter keeps counting.
LiveSpec ==
    /\ LiveInit
    /\ [][LiveNext]_vars
    /\ WF_vars(DispatchStep)
    /\ SF_vars(ClockTick)

-----------------------------------------------------------------------------
(* timer_is_before on chosen pairs of 32-bit values *)

CmpValues ==
    {0, 1, 16, 0 - 16, 0 - 1, 1000, MaxInt32, MinInt32, MinInt32 + 1}

CmpDists == {1, 32, MaxInt32}

CmpInit ==
    /\ InitCore
    /\ clock = 0
    /\ ticks = 0
    /\ cmp \in [a : CmpValues, b : CmpValues, d : CmpDists, applied : {FALSE},
                ab : {FALSE}, ba : {FALSE}, aa : {FALSE}, ad : {FALSE}]

cmp_apply ==
    /\ ~cmp.applied
    /\ cmp' = [cmp EXCEPT !.applied = TRUE,
                          !.ab = timer_is_before(cmp.a, cmp.b),
                          !.ba = timer_is_before(cmp.b, cmp.a),
                          !.aa = timer_is_before(cmp.a, cmp.a),
                          !.ad = timer_is_before(cmp.a, Add32(cmp.a, cmp.d))]
    /\ UNCHANGED <<clock, ticks, queue_next, timer_repeat_until, last_timer,
                   irq_on, mode, task, stack, irqs, tru_unmasked, hook>>

CmpNext == cmp_apply

CmpSpec == CmpInit /\ [][CmpNext]_vars

-----------------------------------------------------------------------------
(* Properties *)

Frames == {stack[i] : i \in 1 .. Len(stack)}

\* The activation has decided its current iteration.
Decided(f) == f.pc \notin {"load", "dispatch", "read", "decide"}

\* The activation is in its first iteration and has decided it: next and now
\* are those of the first sched_timer_dispatch call and the reading after it.
DecidedFirst(f) == f.nd = 1 /\ Decided(f)

\* a is strictly before b and b strictly before c, in wrap-safe order.
Between(a, b, c) == timer_is_before(a, b) /\ timer_is_before(b, c)

\* C1: when the first reported deadline is more than TIMER_MIN_TRY_TICKS after
\* the clock value read right after it, timer_dispatch_many returns exactly that
\* deadline after a single sched_timer_dispatch call, without unmasking
\* interrupts, without force_defer or shutdown, and with timer_repeat_until as
\* it was on entry.
C1_FutureDeadlineReturned ==
    \A f \in Frames :
        (DecidedFirst(f) /\ Sub32(f.next, f.now) > TIMER_MIN_TRY_TICKS)
        => /\ f.pc = "ret"
           /\ f.exit = "next"
           /\ f.ret = f.next
           /\ f.ne = 0 /\ f.ndis = 0
           /\ f.nf = 0 /\ f.ns = 0
           /\ ~irq_on
           /\ timer_repeat_until = f.tru0

\* C1 witness: a deadline 10000 ticks ahead is returned although the repeat
\* window had expired on entry.
C1_Witness ==
    \E f \in Frames :
        /\ f.pc = "ret" /\ f.nd = 1 /\ f.exit = "next"
        /\ f.ret = Add32(f.now, 10000)
        /\ f.expired0

\* The case of C2: entered with the repeat window expired, the first deadline
\* reported is at or before the loop's clock reading `now`, and not more than
\* 1 ms of ticks before it.
StarvedOnEntry(f) ==
    /\ DecidedFirst(f)
    /\ f.expired0
    /\ Sub32(f.next, f.now) <= 0
    /\ ~timer_is_before(Add32(f.next, timer_from_us(1000)), f.now)

\* C2 as stated: in that case force_defer is invoked once, no second
\* sched_timer_dispatch is made, and the value returned lies strictly between
\* the loop's `now` and `now + TIMER_DEFER_REPEAT_TICKS + 1`.
C2_Original ==
    \A f \in Frames :
        StarvedOnEntry(f)
        => /\ f.pc \in {"fd_read", "fd_check", "ret", "fatal"}
           /\ f.nf = 1
           /\ f.pc = "ret" =>
                Between(f.now, f.ret, Add32(f.now, TIMER_DEFER_REPEAT_TICKS + 1))

\* C2 amended: in that case force_defer is invoked once and no second
\* sched_timer_dispatch is made; force_defer reads the clock again, and when it
\* returns, the value is its own reading plus TIMER_DEFER_REPEAT_TICKS: strictly
\* between that reading and that reading + TIMER_DEFER_REPEAT_TICKS + 1, and
\* never before the loop's `now` + TIMER_DEFER_REPEAT_TICKS; it does not return
\* when by its own reading the deadline is more than 1 ms of ticks in the past.
C2_ForcedDefer ==
    \A f \in Frames :
        StarvedOnEntry(f)
        => /\ f.pc \in {"fd_read", "fd_check", "ret", "fatal"}
           /\ f.nf = 1
           /\ f.pc = "ret" =>
                /\ f.exit = "defer"
                /\ f.ret = Add32(f.fnow, TIMER_DEFER_REPEAT_TICKS)
                /\ Between(f.fnow, f.ret, Add32(f.fnow, TIMER_DEFER_REPEAT_TICKS + 1))
                /\ ~timer_is_before(f.ret, Add32(f.now, TIMER_DEFER_REPEAT_TICKS))
                /\ ~timer_is_before(Add32(f.next, timer_from_us(1000)), f.fnow)
           /\ f.pc = "fatal" =>
                timer_is_before(Add32(f.next, timer_from_us(1000)), f.fnow)

\* C2 witness: the forced defer returns after the clock advanced between the
\* loop's reading and force_defer's.
C2_Witness ==
    \E f \in Frames :
        /\ StarvedOnEntry(f)
        /\ f.pc = "ret"
        /\ f.fnow # f.now

\* C3: an invocation to which every sched_timer_dispatch call reported a
\* deadline more than timer_from_us(1000) ticks before the clock never returns
\* a value, whatever timer_repeat_until was on entry; no invocation calls
\* shutdown more than once, and it ends in the fatal exit exactly when it has
\* called it once.
C3_FatalPath ==
    \A f \in Frames :
        /\ (f.allpast /\ f.nd > 0) => (f.pc # "ret" /\ f.exit \in {"none", "fatal"})
        /\ f.ns <= 1
        /\ (f.pc = "fatal") = (f.ns = 1)
        /\ (f.exit = "fatal") = (f.ns = 1)

\* C3 witness: the fatal exit of an invocation entered with an unexpired repeat
\* window, after two reports of a deadline more than 1 ms in the past.
C3_Witness ==
    \E f \in Frames :
        /\ f.allpast /\ f.nd = 2 /\ ~f.expired0
        /\ f.pc = "fatal" /\ f.ns = 1

\* C5: a returned value is after the most recent clock reading: the normal exit
\* returns `next`, more than TIMER_MIN_TRY_TICKS after the loop's `now`; the
\* only other returned value is force_defer's own `now` plus
\* TIMER_DEFER_REPEAT_TICKS.
C5_ReturnAfterNow ==
    \A i \in 1 .. Len(stack) :
        LET f == stack[i] IN
        f.pc = "ret"
        => /\ i = Len(stack)
           /\ f.exit \in {"next", "defer"}
           /\ f.exit = "next" =>
                /\ f.ret = f.next
                /\ f.now = clock
                /\ Sub32(f.ret, f.now) > TIMER_MIN_TRY_TICKS
           /\ f.exit = "defer" =>
                /\ f.fnow = clock
                /\ f.ret = Add32(f.fnow, TIMER_DEFER_REPEAT_TICKS)
           /\ Sub32(f.ret, clock) > 0
           /\ timer_is_before(clock, f.ret)

\* C5 witness: a deadline beyond the counter's wrap is returned before the wrap.
C5_Witness ==
    \E f \in Frames :
        /\ f.pc = "ret" /\ f.exit = "next"
        /\ f.now < 0 /\ f.ret >= 0

\* The activation at depth i is under way.
Active(i) ==
    /\ mode = "run"
    /\ Len(stack) >= i
    /\ stack[i].pc \notin {"ret", "fatal"}

\* The activation at depth i has left through one of the three exits, or the
\* fatal shutdown raised by a nested activation has stopped the system.
Exited(i) ==
    \/ Len(stack) < i
    \/ stack[i].exit \in {"next", "defer", "fatal"}
    \/ mode = "shutdown"

\* C4: with the clock advancing and the processor executing, every invocation
\* of timer_dispatch_many eventually returns `next`, returns the forced-defer
\* value or ends in the fatal shutdown, whatever deadlines the queue reports;
\* the spin-wait on diff > 0 ends.
C4_PassTerminates == \A i \in 1 .. MaxDepth : Active(i) ~> Exited(i)

\* C4 witness: an invocation is polling the clock in its spin-wait, in its
\* second iteration or later, while it has interrupted another spin-wait.
C4_Witness ==
    /\ Len(stack) = 2
    /\ Top.pc = "spin" /\ Top.diff > 0 /\ Top.nd > 1
    /\ stack[1].pc = "spin" /\ stack[1].diff > 0

\* C6: timer_repeat_until is never read or written while interrupts are
\* unmasked.
C6_MaskedAccess == ~tru_unmasked

\* C6 witness: the variable has been written by the idle task and by the
\* shutdown hook, and a timer interrupt nested in the spin-wait of another has
\* just written it in force_defer.
C6_Witness ==
    /\ Len(stack) = 2
    /\ Top.pc = "ret" /\ Top.exit = "defer"
    /\ stack[1].pc = "spin"
    /\ task.calls > 0
    /\ hook.total > 0

\* timer_task has returned.
TaskReturned == task.pc = "idle" /\ task.calls > 0

\* C7: a call of timer_task invokes irq_wait once when timer_get_next returns
\* what it returned in the previous call, and otherwise does not invoke it and
\* stores the new value in last_timer; after every call last_timer is the
\* deadline observed in that call, and only timer_task's line 96 changes
\* last_timer.
C7_IdleDecision ==
    /\ [](TaskReturned =>
            /\ last_timer = task.next
            /\ (task.calls > 1 /\ task.next = task.prev) => task.nwait = 1
            /\ (task.calls > 1 /\ task.next # task.prev) => task.nwait = 0)
    /\ [][last_timer' # last_timer =>
            (task.pc = "store" /\ task'.pc = "idle" /\ last_timer' = task.next)]_vars

\* C7 witness: a second call found the deadline of the first call and slept.
C7_Witness ==
    /\ TaskReturned
    /\ task.calls = 2 /\ task.next = task.prev /\ task.next # 0
    /\ task.nwait = 1

\* C8: after timer_irq_shutdown, timer_repeat_until is the clock value read in
\* that call plus TIMER_IDLE_REPEAT_TICKS, whatever it was before; after two
\* successive calls it is the second reading plus TIMER_IDLE_REPEAT_TICKS.
C8_ShutdownHook ==
    (mode = "shutdown" /\ hook.n > 0)
    => /\ hook.now = clock
       /\ timer_repeat_until = Add32(hook.now, TIMER_IDLE_REPEAT_TICKS)

\* C8 witness: two successive calls with the clock advancing between them.
C8_Witness ==
    /\ mode = "shutdown"
    /\ hook.n = 2
    /\ hook.moved

\* The separation of a and b is less than 2^31 ticks.
Comparable(a, b) == Sub32(a, b) # MinInt32

\* C9: timer_is_before(a, a) is false; for a # b less than 2^31 ticks apart
\* exactly one of timer_is_before(a, b) and timer_is_before(b, a) is true; and
\* timer_is_before(a, a + d) is true for 0 < d < 2^31, also when a + d wraps.
C9_WrapSafeCompare ==
    cmp.applied
    => /\ ~cmp.aa
       /\ (cmp.a # cmp.b /\ Comparable(cmp.a, cmp.b)) => (cmp.ab # cmp.ba)
       /\ (cmp.d > 0 /\ cmp.d <= MaxInt32) => cmp.ad

\* C9 witness: a = 0xFFFFFFF0 is before b = 0x00000010.
C9_Witness ==
    /\ cmp.applied
    /\ cmp.a = 0 - 16 /\ cmp.b = 16 /\ cmp.d = 32
    /\ cmp.ab /\ ~cmp.ba /\ cmp.ad

\* C10 as stated: an iteration whose deadline is not more than
\* TIMER_MIN_TRY_TICKS ahead takes the starvation exit if and only if its clock
\* reading is past the value timer_repeat_until holds at that moment.
C10_Original ==
    \A f \in Frames :
        /\ f.pc = "fd_read" => timer_is_before(timer_repeat_until, f.now)
        /\ f.pc = "enable" => ~timer_is_before(timer_repeat_until, f.now)

\* C10 amended: such an iteration takes the starvation exit if and only if its
\* clock reading is past the value timer_repeat_until held when the invocation
\* began (the copy taken at line 61), whatever was written to the variable
\* since.
C10_StarvationExit ==
    \A f \in Frames :
        /\ f.pc \in {"fd_read", "enable"} => f.diff <= TIMER_MIN_TRY_TICKS
        /\ f.pc = "fd_read" => timer_is_before(f.tru0, f.now)
        /\ f.pc = "enable" => ~timer_is_before(f.tru0, f.now)

\* C10 witness: the starvation exit is taken although a nested interrupt's
\* force_defer has moved timer_repeat_until past the clock reading.
C10_Witness ==
    /\ Len(stack) = 1
    /\ Top.pc = "fd_read"
    /\ Top.tru0 # timer_repeat_until
    /\ ~timer_is_before(timer_repeat_until, Top.now)

\* C11: when force_defer does not fault, timer_repeat_until is its clock reading
\* plus TIMER_REPEAT_TICKS and the value returned is the same reading plus
\* TIMER_DEFER_REPEAT_TICKS, both modulo 2^32; the returned deadline is strictly
\* before the new timer_repeat_until, so that the repeat window is not expired
\* at the clock value of the returned deadline.
C11_ForcedDeferRearm ==
    \A f \in Frames :
        (f.pc = "ret" /\ f.exit = "defer")
        => /\ ~InThePast(f.next, f.fnow)
           /\ timer_repeat_until = Add32(f.fnow, TIMER_REPEAT_TICKS)
           /\ f.ret = Add32(f.fnow, TIMER_DEFER_REPEAT_TICKS)
           /\ Sub32(timer_repeat_until, f.ret)
                = TIMER_REPEAT_TICKS - TIMER_DEFER_REPEAT_TICKS
           /\ timer_is_before(f.ret, timer_repeat_until)
           /\ ~timer_is_before(timer_repeat_until, f.ret)

\* C11 witness: a forced defer in the second iteration of an invocation, the
\* clock having advanced between the loop's reading and force_defer's.
C11_Witness ==
    \E f \in Frames :
        /\ f.pc = "ret" /\ f.exit = "defer"
        /\ f.nd = 2
        /\ f.fnow # f.now
        /\ timer_repeat_until # Add32(f.now, TIMER_REPEAT_TICKS)

\* The activation's deadline plus 1 ms of ticks is before force_defer's reading.
TooOld(f) == Sub32(Add32(f.next, timer_from_us(1000)), f.fnow) < 0

\* C12: the core raises shutdown only in force_defer, and exactly when the
\* deadline plus timer_from_us(1000) is before force_defer's clock reading (a
\* deadline exactly 1 ms of ticks in the past does not fault); the fatal
\* shutdown occurs only in an iteration whose clock reading was past the repeat
\* deadline tested at line 72, and then force_defer neither writes
\* timer_repeat_until nor returns; any other shutdown is the external event,
\* raised with no invocation in progress.
C12_FatalDetection ==
    /\ [](\A f \in Frames :
            /\ f.pc = "fatal"
               => /\ mode = "shutdown"
                  /\ TooOld(f)
                  /\ Sub32(f.fnow, f.next) # timer_from_us(1000)
                  /\ f.nf = 1
                  /\ f.diff <= TIMER_MIN_TRY_TICKS
                  /\ Sub32(f.tru, f.now) < 0
                  /\ f.exit = "fatal"
            /\ (f.pc = "ret" /\ f.exit = "defer") => ~TooOld(f))
    /\ [][(mode = "run" /\ mode' = "shutdown")
            => \/ stack = <<>> /\ stack' = stack
               \/ /\ stack # <<>>
                  /\ Top.pc = "fd_check"
                  /\ TooOld(Top)
                  /\ timer_repeat_until' = timer_repeat_until
                  /\ stack' = SetTop([Top EXCEPT !.pc = "fatal", !.exit = "fatal",
                                                 !.ns = 1])]_vars
    /\ [][(mode = "run" /\ stack # <<>> /\ Top.pc = "fd_check" /\ stack' # stack)
            => (TooOld(Top) <=> mode' = "shutdown")]_vars

\* C12 witness: a fatal shutdown of a deadline that was within the 1 ms
\* tolerance at the loop's clock reading and beyond it at force_defer's.
C12_Witness ==
    \E f \in Frames :
        /\ f.pc = "fatal"
        /\ Sub32(Add32(f.next, timer_from_us(1000)), f.now) >= 0
        /\ Sub32(f.tru, f.now) < 0

\* C13: in timer_dispatch_many interrupts are unmasked during the spin-wait
\* only: the running invocation has them unmasked exactly while it is in the
\* spin-wait, so every sched_timer_dispatch call and every decision of lines
\* 68-74 is made with interrupts masked, and an invocation is interrupted only
\* in its spin-wait; a second or later sched_timer_dispatch call is made only
\* after a clock reading at or after the deadline reported before (diff <= 0).
C13_SpinWaitProtocol ==
    /\ (mode = "run" /\ stack # <<>>) => (irq_on <=> Top.pc = "spin")
    /\ \A i \in 1 .. Len(stack) - 1 : stack[i].pc = "spin"
    /\ \A f \in Frames :
        /\ (f.pc = "dispatch" /\ f.nd >= 1)
           => /\ f.diff <= 0
              /\ ~timer_is_before(clock, f.next)
              /\ f.ne = f.ndis
        /\ (f.pc = "read" /\ f.nd >= 2) => f.diff <= 0
        /\ f.pc = "spin" => f.diff <= TIMER_MIN_TRY_TICKS

\* C13 witness: the second sched_timer_dispatch call of an invocation that no
\* interrupt nested in, made after its spin-wait saw the clock pass the
\* deadline.
C13_Witness ==
    /\ Len(stack) = 1 /\ irqs = 1
    /\ Top.pc = "read" /\ Top.nd = 2
    /\ Top.diff < 0
    /\ clock # Top.now
    /\ ~irq_on

\* timer_task is about to return: on the changed-deadline path (line 96) or on
\* the sleep path (line 105), no interrupt handler being in progress.
ReturningChanged == mode = "run" /\ stack = <<>> /\ task.pc = "store"

ReturningSlept == mode = "run" /\ stack = <<>> /\ task.pc = "stats"

\* C14 as stated: on every return of timer_task timer_repeat_until is the last
\* clock value the task read plus TIMER_IDLE_REPEAT_TICKS (cur on the
\* changed-deadline path, post_sleep on the sleep path); stats_note_sleep is
\* called once with post_sleep - cur on the sleep path and never on the other.
C14_Original ==
    /\ ReturningChanged
       => timer_repeat_until = Add32(task.cur, TIMER_IDLE_REPEAT_TICKS)
    /\ ReturningSlept
       => timer_repeat_until = Add32(task.post, TIMER_IDLE_REPEAT_TICKS)
    /\ TaskReturned
       => /\ task.nwait = 1 =>
                (task.nstats = 1 /\ task.slept = Sub32(task.post, task.cur))
          /\ task.nwait = 0 => task.nstats = 0

\* C14 amended: when timer_task unmasks interrupts (line 95, line 104)
\* timer_repeat_until is the last clock value the task read plus
\* TIMER_IDLE_REPEAT_TICKS (cur on the changed-deadline path, post_sleep on the
\* sleep path, whatever a timer interrupt's force_defer wrote during irq_wait);
\* it is still that value when timer_task returns, unless a timer interrupt
\* served between that irq_enable and the return went through force_defer,
\* which then left a later value, its own reading plus TIMER_REPEAT_TICKS or
\* less ahead of the clock; stats_note_sleep is called once with
\* post_sleep - cur on the sleep path and never on the changed-deadline path.
C14_IdleWindow ==
    /\ (mode = "run" /\ task.pc = "enable1")
       => /\ timer_repeat_until = Add32(task.cur, TIMER_IDLE_REPEAT_TICKS)
          /\ clock = task.cur
          /\ ~irq_on
    /\ (mode = "run" /\ task.pc = "enable2")
       => /\ timer_repeat_until = Add32(task.post, TIMER_IDLE_REPEAT_TICKS)
          /\ clock = task.post
          /\ ~irq_on
    /\ (ReturningChanged /\ ~task.fdw)
       => timer_repeat_until = Add32(task.cur, TIMER_IDLE_REPEAT_TICKS)
    /\ (ReturningSlept /\ ~task.fdw)
       => timer_repeat_until = Add32(task.post, TIMER_IDLE_REPEAT_TICKS)
    /\ (ReturningChanged /\ task.fdw)
       => /\ timer_is_before(Add32(task.cur, TIMER_IDLE_REPEAT_TICKS),
                             timer_repeat_until)
          /\ Sub32(timer_repeat_until, clock) <= TIMER_REPEAT_TICKS
    /\ (ReturningSlept /\ task.fdw)
       => /\ timer_is_before(Add32(task.post, TIMER_IDLE_REPEAT_TICKS),
                             timer_repeat_until)
          /\ Sub32(timer_repeat_until, clock) <= TIMER_REPEAT_TICKS
    /\ task.pc \in {"boost", "enable1", "store"}
       => (task.nwait = 0 /\ task.nstats = 0)
    /\ task.pc \in {"wait", "woke", "enable2", "stats"}
       => (task.nwait = 1 /\ task.nstats = 0)
    /\ TaskReturned
       => /\ task.nwait = 1 =>
                (task.nstats = 1 /\ task.slept = Sub32(task.post, task.cur))
          /\ task.nwait = 0 => task.nstats = 0

\* C14 witness: the task is about to unmask interrupts after a sleep during
\* which a timer interrupt's force_defer wrote timer_repeat_until; the clock
\* advanced between the task's two readings, and the window is the one
\* computed from post_sleep.
C14_Witness ==
    /\ mode = "run" /\ task.pc = "enable2"
    /\ task.fdw
    /\ task.post # task.cur
    /\ timer_repeat_until = Add32(task.post, TIMER_IDLE_REPEAT_TICKS)

\* v is a near-future value at clock value now: not before now and not more
\* than TIMER_IDLE_REPEAT_TICKS after it.
NearFuture(v, now) ==
    /\ ~timer_is_before(v, now)
    /\ ~timer_is_before(Add32(now, TIMER_IDLE_REPEAT_TICKS), v)

\* timer_irq_shutdown has run in the shutdown in progress.
HookRan == mode = "shutdown" /\ hook.n > 0

\* C15 as stated: when timer_irq_shutdown has run, both timer_repeat_until and
\* last_timer hold near-future values derived from the clock at the shutdown.
C15_Original ==
    HookRan
    => /\ NearFuture(timer_repeat_until, hook.now)
       /\ NearFuture(last_timer, hook.now)

\* C15 amended: when timer_irq_shutdown has run, timer_repeat_until holds the
\* near-future value clock + TIMER_IDLE_REPEAT_TICKS; last_timer is not touched
\* by the hook and keeps the deadline stored by timer_task (or its initial 0).
C15_LifecycleReset ==
    /\ [](HookRan
           => /\ NearFuture(timer_repeat_until, hook.now)
              /\ timer_repeat_until = Add32(clock, TIMER_IDLE_REPEAT_TICKS)
              /\ TaskReturned => last_timer = task.next
              /\ task.calls = 0 => last_timer = 0)
    /\ [][hook.total' # hook.total => last_timer' = last_timer]_vars
    /\ [][mode = "shutdown" => last_timer' = last_timer]_vars

\* C15 witness: the hook has run while last_timer holds a deadline stored by
\* timer_task that is before the clock.
C15_Witness ==
    /\ HookRan
    /\ last_timer # 0
    /\ timer_is_before(last_timer, hook.now)
    /\ ~NearFuture(last_timer, hook.now)

\* The last clock value the activation read in its current iteration, at line
\* 66 or in the spin-wait: diff = next - reading.
LastReading(f) == Sub32(f.next, f.diff)

\* The activation has completed an iteration and goes on with the next one.
Continuing(f) ==
    \/ f.pc = "dispatch" /\ f.nd >= 1
    \/ f.pc = "read" /\ f.nd >= 2

\* C16 as stated: an invocation that has read, in an iteration, a clock value
\* past the repeat deadline captured at entry makes no further
\* sched_timer_dispatch call; the second and later calls of an invocation start
\* no later than that deadline.
C16_Original ==
    /\ \A f \in Frames :
          (f.pc = "dispatch" /\ f.nd >= 1) => ~timer_is_before(f.tru, LastReading(f))
    /\ (mode = "run" /\ stack # <<>> /\ Top.pc = "read" /\ Top.nd >= 2)
       => ~timer_is_before(Top.tru, clock)

\* C16 amended: once the reading of line 66, taken right after a
\* sched_timer_dispatch call, is past the repeat deadline captured at entry,
\* the invocation makes no further sched_timer_dispatch call and no spin-wait
\* and exits in that iteration, by returning next, by the forced defer or by
\* the fatal shutdown; an invocation that spins or goes on to another
\* iteration had a reading of line 66 not past that deadline, so that every
\* sched_timer_dispatch call but the last started no later than the deadline.
\* The readings of the spin-wait are not compared with the deadline.
C16_StarvationBound ==
    \A f \in Frames :
        /\ (Decided(f) /\ Sub32(f.tru, f.now) < 0)
           => /\ f.pc \in {"ret", "fd_read", "fd_check", "fatal"}
              /\ f.exit \in {"none", "next", "defer", "fatal"}
              /\ f.ne = f.ndis
              /\ f.pc = "ret" => f.exit \in {"next", "defer"}
        /\ (f.pc \in {"enable", "spin"} \/ Continuing(f))
           => Sub32(f.tru, f.now) >= 0
        /\ f.nf > 0 => Sub32(f.tru, f.now) < 0

\* C16 witness: an invocation goes on to a second sched_timer_dispatch call
\* after its spin-wait read a clock value past the deadline captured at entry,
\* the reading of line 66 having been before it.
C16_Witness ==
    \E f \in Frames :
        /\ f.pc = "dispatch" /\ f.nd = 1
        /\ Sub32(f.tru, f.now) >= 0
        /\ Sub32(f.tru, LastReading(f)) < 0

\* C17: timer_dispatch_many, entered with interrupts masked, has them masked
\* when it returns and when it calls force_defer or shutdown, its irq_enable and
\* irq_disable calls being equal in number (one irq_enable more while it is in
\* the spin-wait); timer_task, entered with interrupts unmasked, returns with
\* interrupts unmasked on both paths, having called irq_disable once and
\* irq_enable once.
C17_MaskBalance ==
    /\ \A i \in 1 .. Len(stack) :
          LET f == stack[i] IN
          /\ f.pc \in {"ret", "fd_read", "fd_check", "fatal"}
             => (i = Len(stack) /\ ~irq_on /\ f.ne = f.ndis)
          /\ f.pc = "load" => (~irq_on /\ f.ne = 0 /\ f.ndis = 0)
          /\ f.pc \in {"dispatch", "read", "decide", "enable"} => f.ne = f.ndis
          /\ f.pc = "spin" => f.ne = f.ndis + 1
    /\ (mode = "run" /\ stack = <<>> /\ task.pc \in {"idle", "disable"}) => irq_on
    /\ task.pc = "disable" => (task.ndis = 0 /\ task.nen = 0)
    /\ (ReturningChanged \/ ReturningSlept)
       => (irq_on /\ task.ndis = 1 /\ task.nen = 1)
    /\ TaskReturned => (task.ndis = 1 /\ task.nen = 1)

\* C17 witness: a timer interrupt taken between timer_task's irq_enable of line
\* 104 and its return calls force_defer in its second iteration, after one
\* spin-wait.
C17_Witness ==
    /\ Len(stack) = 1
    /\ Top.pc = "fd_check" /\ Top.ne = 1 /\ Top.ndis = 1
    /\ ~irq_on
    /\ task.pc = "stats" /\ task.ndis = 1 /\ task.nen = 1

\* C18: in timer_task interrupts are masked from before the reads of line 92
\* until the processor enters irq_wait: no timer interrupt is taken in between,
\* and when the wait starts the queue's next deadline is still the one the
\* decision of line 93 was made on, equal to last_timer; it stays so until an
\* interrupt wakes the processor.
C18_NoLostWakeup ==
    /\ [](/\ (mode = "run" /\ task.pc \in {"peek", "boost", "enable1", "sleep"})
             => (~irq_on /\ stack = <<>>)
          /\ task.pc = "sleep"
             => (queue_next = task.next /\ last_timer = task.next
                 /\ clock = task.cur)
          /\ (task.pc = "wait" /\ ~task.woken)
             => (queue_next = task.next /\ last_timer = task.next
                 /\ stack = <<>> /\ irq_on /\ mode = "run"))
    /\ [][(irqs' # irqs \/ queue_next' # queue_next)
            => task.pc \notin {"peek", "boost", "enable1", "sleep"}]_vars

\* C18 witness: the processor has entered irq_wait in a second call of
\* timer_task, which found the deadline stored by the first call, a deadline
\* reported to a timer interrupt.
C18_Witness ==
    /\ task.pc = "wait" /\ ~task.woken
    /\ task.calls = 2
    /\ task.next # 0
    /\ irqs > 0
    /\ queue_next = last_timer

\* C19: timer_repeat_until is never more than TIMER_IDLE_REPEAT_TICKS ahead of
\* the clock in wrap-safe order (the initial 0 included, at the initial clock
\* values of the model), and every write sets it to a value that is not before
\* the value it replaces.
C19_BoundedWindow ==
    /\ [](Sub32(timer_repeat_until, clock) <= TIMER_IDLE_REPEAT_TICKS)
    /\ [][~timer_is_before(timer_repeat_until', timer_repeat_until)]_vars
    /\ [][timer_repeat_until' # timer_repeat_until
            => Sub32(timer_repeat_until', clock')
                 \in {TIMER_REPEAT_TICKS, TIMER_IDLE_REPEAT_TICKS}]_vars

\* C19 witness: force_defer has just replaced a window written by the idle
\* task or the shutdown hook, both having run, by a later and shorter one.
C19_Witness ==
    /\ Len(stack) = 1
    /\ Top.pc = "ret" /\ Top.exit = "defer"
    /\ Top.tru0 # 0
    /\ task.calls > 0 /\ hook.total > 0
    /\ Sub32(timer_repeat_until, clock) = TIMER_REPEAT_TICKS
    /\ timer_is_before(Top.tru0, timer_repeat_until)

====
